---- MODULE Spec2Model ----
(***************************************************************************)
(* The news hub server: five iterations of the same WebSocket server over  *)
(* a relational store.  The iteration that runs is fixed at start-up and   *)
(* is the variable `variant`:                                              *)
(*   "pgPoolCat"  src/server.js 1-361        pg Pool, categories           *)
(*   "sqliteCb"   src/server.js 363-669      sqlite3, callback API         *)
(*   "pgPool"     src/unnamed/part_000       pg Pool                       *)
(*   "sqliteProm" src/unnamed/part_001 1-384 sqlite3, util.promisify       *)
(*   "pgClient"   src/unnamed/part_001 386-733  one pg Client              *)
(* Every async handler is cut at its awaits: the synchronous start of the  *)
(* handler (Receive, Connect), the statement as the store executes it      *)
(* (DbExec, SnapshotQuery), and the continuation after the await (Resume,  *)
(* SnapshotSend).                                                          *)
(***************************************************************************)
EXTENDS Integers, Sequences, FiniteSets, TLC

\* ---------------------------------------------------------------- bounds
MaxReqs == 2
MaxClock == 2
ClientStamp == 9

\* The sockets that may connect.  They are interchangeable, so they connect in
\* the order of their numbers.
Sessions == {1, 2}

\* ------------------------------------------------------------- variants
Variants == {"pgPoolCat", "sqliteCb", "pgPool", "sqliteProm", "pgClient"}

\* PostgreSQL checks REFERENCES articles(id); sqlite3 leaves foreign keys
\* off unless PRAGMA foreign_keys = ON is issued, and no variant issues it.
EnforcesForeignKeys(v) == v \in {"pgPoolCat", "pgPool", "pgClient"}

\* The reactions table carries UNIQUE(article_id, client_id, type).
HasUniqueReaction(v) == v \in {"sqliteProm", "pgClient"}

\* The handler reads Date.now() itself; the others insert the timestamp
\* field of the client's object.
ServerStamps(v) == v \in {"sqliteProm", "pgClient"}

\* Start-up inserts a sample article into an empty articles table.
SeedsSampleArticle(v) == v \in {"sqliteCb", "pgPool"}

\* SERIAL takes its value from a sequence before the constraints are
\* checked, so a rejected INSERT uses up an id; AUTOINCREMENT does not.
IsPostgres(v) == v \in {"pgPoolCat", "pgPool", "pgClient"}

\* All statements go through one pg Client, which sends the next statement
\* only when the previous one has answered.
SingleConnection(v) == v = "pgClient"

\* db.run = util.promisify(db.run): sqlite3 calls back run's callback with
\* (err) alone and puts lastID / changes on `this`, so the promise resolves
\* to undefined.
RunResolvesUndefined(v) == v = "sqliteProm"

\* The switch has a GET_ALL_ARTICLES case.
HasGetAllCase(v) == v \in {"pgPoolCat", "sqliteCb", "pgPool"}

\* The default branch of the switch answers with an ERROR event; the others
\* only console.warn.
RepliesUnknown(v) == v \in {"sqliteProm", "pgClient"}

\* broadcast() wraps each client.send in try/catch; the others call client.send
\* bare inside wss.clients.forEach.
GuardsSend(v) == v \in {"pgPoolCat", "sqliteCb", "pgPool"}

\* getAllArticles awaits the per-article queries inside the async callback of
\* db.all: a rejection there settles neither resolve nor reject of the promise
\* the caller awaits.
DetailFailureHangs(v) == v = "sqliteCb"

\* ------------------------------------------------------------- requests
Undefined == "undefined"

\* addArticle returns { id: newId, ...article }: a field of the client's object
\* replaces the one written before the spread.
SpreadsArticle(v) == v \in {"pgPoolCat", "sqliteCb", "pgPool"}

\* The handler stores and announces userName || 'Anonymous'.
DefaultsAuthor(v) == v \in {"sqliteProm", "pgClient"}

Msg(t, title, content, articleId, clientId, rtype, stamp) ==
    [type |-> t, title |-> title, content |-> content, articleId |-> articleId,
     clientId |-> clientId, rtype |-> rtype, timestamp |-> stamp,
     category |-> 0]          \* article.categoryId; 0 when the object has none

\* timestamp is << >> when the client's object has no timestamp field; articleId
\* of a PUBLISH_ARTICLE is the id field the client put into the article object
\* (0: none); clientId of a POST_COMMENT is comment.userName
PublishInputs ==
    { Msg("PUBLISH_ARTICLE", "T", "B", 0, "", "", <<ClientStamp>>),
      Msg("PUBLISH_ARTICLE", "T", "B", 0, "", "", << >>),
      Msg("PUBLISH_ARTICLE", "", "B", 0, "", "", <<ClientStamp>>),
      Msg("PUBLISH_ARTICLE", Undefined, "B", 0, "", "", <<ClientStamp>>) }

CommentInputs ==
    { Msg("POST_COMMENT", "", "hi", a, "alice", "", <<ClientStamp>>) : a \in 1..2 }

ReactionInputs ==
    { Msg("POST_REACTION", "", "", a, "x", "love", <<ClientStamp>>) : a \in 1..2 }

\* reactions on article 1 that differ in the client or in the type
VariedReactions ==
    { Msg("POST_REACTION", "", "", 1, "x", "love", <<ClientStamp>>),
      Msg("POST_REACTION", "", "", 1, "x", "sad", <<ClientStamp>>),
      Msg("POST_REACTION", "", "", 1, "y", "love", <<ClientStamp>>) }

\* articles that name a category: the first one seeded, and one that does not
\* exist
CategorisedPublish ==
    { [Msg("PUBLISH_ARTICLE", "T", "B", 0, "", "", <<ClientStamp>>) EXCEPT !.category = c] :
        c \in {1, 9} }

\* an article object that brings an id of its own
ForgedPublish == Msg("PUBLISH_ARTICLE", "T", "B", 7, "", "", <<ClientStamp>>)

\* comments on article 1 whose userName is the empty string, and is absent
BlankAuthorInputs ==
    { Msg("POST_COMMENT", "", "hi", 1, u, "", <<ClientStamp>>) : u \in {"", Undefined} }

QueryInputs == { Msg("GET_ALL_ARTICLES", "", "", 0, "", "", << >>) }

\* a type the switch has no case for, and an object without a type field
UnknownInputs ==
    { Msg("DELETE_ARTICLE", "", "", 1, "", "", << >>),
      Msg(Undefined, "", "", 0, "", "", << >>) }

\* what stands in a handler's record for a payload JSON.parse threw on
NoData == Msg(Undefined, "", "", 0, "", "", << >>)

Inputs == PublishInputs \cup CommentInputs \cup ReactionInputs \cup QueryInputs

Mutations == {"PUBLISH_ARTICLE", "POST_COMMENT", "POST_REACTION"}

\* The switch of variant v has a case for type t.
HasCase(v, t) == t \in Mutations \/ (t = "GET_ALL_ARTICLES" /\ HasGetAllCase(v))

VARIABLES
    boot,         \* how far the process has come: "connect", "schema", "seed",
                  \* "up"; "degraded" when it runs on after a failed start-up;
                  \* "exited" after process.exit(1)
    categories,   \* names in table categories (name is UNIQUE)
    variant,      \* which iteration of the server runs
    clock,        \* Date.now()
    articles,     \* rows of table articles
    comments,     \* rows of table comments
    reactions,    \* rows of table reactions
    seq,          \* last id handed out per table
    readyState,   \* per session: the socket's readyState
    connPc,       \* per session: where its connection handler stands
    snap,         \* per session: the rows its snapshot query returned
    inbox,        \* per session: the events sent to it, in order
    reqs,         \* the message handlers started so far, in order of arrival
    dbq,          \* the single pg Client's queue of statements
    checkedOut    \* the clients taken from the pg Pool and not released

vars == <<boot, categories, variant, clock, articles, comments, reactions, seq, readyState,
          connPc, snap, inbox, reqs, dbq, checkedOut>>

\* ---------------------------------------------------------------- store
\* The iteration has a table categories.
HasCategories(v) == v \in {"pgPoolCat", "sqliteProm", "pgClient"}

\* Two of the names every iteration seeds stand for its list of defaults.
DefaultCategories == {"General", "Technology"}

\* ids of the categories: SERIAL / AUTOINCREMENT from 1, no row is ever deleted
CategoryIds == 1..Cardinality(categories)

\* The rows of categories after the seeding step of variant v found cats there:
\* connectAndInitDb inserts its defaults only when the table has no row,
\* initializeCategories inserts each name that is not there yet.
Seeded(v, cats) ==
    IF ~HasCategories(v) THEN cats
    ELSE IF v = "pgPoolCat" THEN (IF cats = {} THEN DefaultCategories ELSE cats)
    ELSE cats \cup DefaultCategories

\* A failed connect or CREATE TABLE ends in process.exit(1); the sqlite
\* iteration of server.js only logs it.
ExitsOnStartupFailure(v) == v # "sqliteCb"

\* The process has not exited.
Running == boot # "exited"

\* This run has created its tables.
TablesEnsured == boot \in {"seed", "up"}

ArticleIds == { a.id : a \in articles }

SampleArticle ==
    [id |-> 1, title |-> "Welcome to the News Hub!", content |-> "sample",
     timestamp |-> 1, category_id |-> 0]

\* The value bound to the timestamp column of an INSERT.
StampOf(v, d, now) == IF ServerStamps(v) THEN <<now>> ELSE d.timestamp

\* SQLSTATE of the constraint an INSERT of request data d violates, "" when none.
InsertError(v, d, now) ==
    CASE d.type = "PUBLISH_ARTICLE" ->
            IF d.title = Undefined \/ d.content = Undefined
               \/ StampOf(v, d, now) = << >>
            THEN "23502"
            ELSE IF /\ HasCategories(v) /\ EnforcesForeignKeys(v)
                    /\ d.category \notin CategoryIds \cup {0}
            THEN "23503" ELSE ""
      [] d.type = "POST_COMMENT" ->
            IF StampOf(v, d, now) = << >> THEN "23502"
            ELSE IF d.clientId = Undefined /\ ~DefaultsAuthor(v) THEN "23502"
            ELSE IF EnforcesForeignKeys(v) /\ d.articleId \notin ArticleIds
            THEN "23503" ELSE ""
      [] d.type = "POST_REACTION" ->
            IF StampOf(v, d, now) = << >> THEN "23502"
            ELSE IF HasUniqueReaction(v)
                    /\ \E x \in reactions : /\ x.article_id = d.articleId
                                            /\ x.clientId = d.clientId
                                            /\ x.type = d.rtype
            THEN "23505"
            ELSE IF EnforcesForeignKeys(v) /\ d.articleId \notin ArticleIds
            THEN "23503" ELSE ""
      [] OTHER -> ""

TableOf(t) ==
    CASE t = "PUBLISH_ARTICLE" -> "articles"
      [] t = "POST_COMMENT" -> "comments"
      [] t = "POST_REACTION" -> "reactions"
      [] OTHER -> "none"

\* what a fetch returns from an empty store
NoSnapshot == [articles |-> {}, comments |-> {}, reactions |-> {}, before |-> {}]

\* The fetch sorts each article's comments: ORDER BY timestamp ASC.
OrdersComments(v) == v \in {"pgPoolCat", "sqliteCb", "pgPool"}

\* ids of the rows a fetch attaches to the articles arts its first SELECT
\* returned: those whose article_id is one of them
AttachedTo(arts, rows) == { x.id : x \in { y \in rows : y.article_id \in arts } }

\* ids of the rows a fetch attaches to an article: those whose article_id is the
\* id of an article the fetch lists
Attached(rows) == AttachedTo(ArticleIds, rows)

CommentRow(id) == CHOOSE c \in comments : c.id = id

\* The orders in which the store may return the comments to a fetch of variant
\* v: by timestamp where the SELECT says ORDER BY, any order where it does not.
CommentOrdersOf(v, arts) ==
    LET ids == AttachedTo(arts, comments)
    IN  { o \in [1..Cardinality(ids) -> ids] :
            /\ \A i \in DOMAIN o : \A j \in DOMAIN o : i # j => o[i] # o[j]
            /\ OrdersComments(v) =>
                  \A i \in DOMAIN o : \A j \in DOMAIN o :
                      i < j => CommentRow(o[i]).timestamp <= CommentRow(o[j]).timestamp }

CommentOrders(v) == CommentOrdersOf(v, ArticleIds)

\* what a fetch whose first SELECT returned the articles arts returns when the
\* store then hands it the comments in order o: the articles, the comments and
\* reactions attached to them, and the pairs of comments of one article of which
\* the first is listed before the second
SnapshotOf(arts, o) ==
    [articles |-> arts,
     comments |-> AttachedTo(arts, comments),
     reactions |-> AttachedTo(arts, reactions),
     before |-> { p \in AttachedTo(arts, comments) \X AttachedTo(arts, comments) :
                    /\ CommentRow(p[1]).article_id = CommentRow(p[2]).article_id
                    /\ \E i \in DOMAIN o : \E j \in DOMAIN o :
                          i < j /\ o[i] = p[1] /\ o[j] = p[2] }]

\* a fetch whose statements all see the store as it is now
Snapshot(o) == SnapshotOf(ArticleIds, o)

Snapshots(v) == { Snapshot(o) : o \in CommentOrders(v) }

\* ---------------------------------------------------------------- events
Event(t, r, id, articleId, stamp, message, s) ==
    [type |-> t, req |-> r, id |-> id, articleId |-> articleId,
     timestamp |-> stamp, message |-> message, snapshot |-> s, author |-> "",
     category |-> 0]

EventType(t) ==
    CASE t = "PUBLISH_ARTICLE" -> "NEW_ARTICLE"
      [] t = "POST_COMMENT" -> "NEW_COMMENT"
      [] t = "POST_REACTION" -> "NEW_REACTION"
      [] OTHER -> "ALL_ARTICLES"

ErrorEvent(r, message) == Event("ERROR", r, 0, 0, 0, message, NoSnapshot)

\* ws.send that puts the event on the wire whatever the socket's readyState.
SendToAny(box, s, ev) == [box EXCEPT ![s] = Append(@, ev)]

\* ws.send to one socket: nothing is delivered unless the socket is OPEN.
SendTo(box, s, ev) ==
    IF readyState[s] = "OPEN" THEN [box EXCEPT ![s] = Append(@, ev)] ELSE box

OpenSessions == { s \in Sessions : readyState[s] = "OPEN" }

\* Sockets that have not connected yet.
NotYetConnected == { s \in Sessions : readyState[s] = "CONNECTING" }

\* A fan-out whose send to the socket that connected last overtakes the events
\* sent to that socket before.
FanOutOvertaking(box, ev, F) ==
    [s \in Sessions |->
        IF readyState[s] # "OPEN" THEN box[s]
        ELSE IF \A o \in Sessions : o <= s THEN <<ev>> \o box[s]
        ELSE Append(box[s], ev)]

\* The fan-out when client.send throws for the sockets in F.  wss.clients is a
\* Set, iterated in the order the sockets connected, which is the order of their
\* numbers.  With try/catch around each send the loop goes on; without it the
\* first throw ends the forEach.
FanOut(box, ev, F) ==
    [s \in Sessions |->
        IF /\ readyState[s] = "OPEN"
           /\ IF GuardsSend(variant) THEN s \notin F
              ELSE \A f \in F \cap OpenSessions : s < f
        THEN Append(box[s], ev) ELSE box[s]]

\* wss.clients.forEach(client => if (client.readyState === OPEN) client.send(..))
\* with no send throwing.
Broadcast(box, ev) == FanOut(box, ev, {})


\* ------------------------------------------------------------- handlers
Request(s, d, pc) ==
    [sess |-> s, data |-> d, pc |-> pc,
     now |-> clock,            \* Date.now() when the handler started
     err |-> "",               \* SQLSTATE the statement ended with
     row |-> 0,                \* id of the row the statement inserted
     result |-> NoSnapshot,    \* rows a getAllArticles returned
     existed |-> FALSE,        \* the article named was there when the statement ran
     open |-> IF pc = "done" THEN OpenSessions ELSE {},
                               \* sockets OPEN when the handler sent its events
     outcome |-> IF pc = "done" THEN "error" ELSE "",
                               \* how the handler ended: broadcast, reply, error
                               \* or ignored
     parsed |-> TRUE,          \* JSON.parse returned
     early |-> FALSE,          \* arrived before ws.on('message') was registered
     threw |-> {},             \* sockets whose send threw during the fan-out
     later |-> IF pc = "done" THEN NotYetConnected ELSE {},
                               \* sockets not yet connected when the handler ended
     prior |-> { k \in DOMAIN reqs : reqs[k].pc = "done" }]
                               \* handlers that had finished when this one started

Job(kind, id) == <<kind, id>>

Enqueue(q, job) == IF SingleConnection(variant) THEN Append(q, job) ELSE q

\* pg Client: the statement at the head of the queue runs, and only once the
\* previous statement's continuation has run.  Pool and sqlite3: any pending
\* statement may run next.
MayRun(job) ==
    SingleConnection(variant) =>
        /\ dbq # << >> /\ Head(dbq) = job
        /\ \A k \in DOMAIN reqs : reqs[k].pc # "resume"
        /\ \A s \in Sessions : connPc[s] \notin {"resume", "failed"}

Dequeue(q) == IF SingleConnection(variant) THEN Tail(q) ELSE q

\* The error of a statement the store could not run.
StoreUnavailable == "08006"

\* Every function that reaches the store takes a client of its own from a
\* pg Pool first.
UsesPool(v) == v \in {"pgPoolCat", "pgPool"}

\* The error pool.connect() rejects with when it gets no client.
PoolConnectFailed == "ECONNREFUSED"

\* The clients out of the pool once a function has taken its own:
\* const client = await pool.connect(), before the try.
Taken(v, n) == IF UsesPool(v) THEN n + 1 ELSE n

\* Released with client.release() as the last statement of the try block.
ReleasedOnSuccess(v, e, n) == IF UsesPool(v) /\ e = "" THEN n - 1 ELSE n

\* The clients out of the pool once a function that took one has left, its
\* statements answered or failed with e: finally { client.release() }.  A
\* function whose pool.connect() rejected never entered the try.
Released(v, e, n) == IF UsesPool(v) /\ e # PoolConnectFailed THEN n - 1 ELSE n

\* wss.on('connection'): the socket joins wss.clients and the handler awaits
\* its first query.
Connect(s) ==
    /\ Running
    /\ readyState[s] = "CONNECTING"
    /\ \A o \in Sessions : o < s => readyState[o] # "CONNECTING"
    /\ readyState' = [readyState EXCEPT ![s] = "OPEN"]
    /\ connPc' = [connPc EXCEPT ![s] = "query"]
    /\ dbq' = Enqueue(dbq, Job("conn", s))
    /\ UNCHANGED <<boot, categories, variant, checkedOut, clock, articles, comments, reactions, seq, snap, inbox, reqs>>

\* The store answers the connect-time queries.
SnapshotQuery(s) ==
    /\ TablesEnsured
    /\ connPc[s] = "query"
    /\ MayRun(Job("conn", s))
    /\ \E sn \in Snapshots(variant) : snap' = [snap EXCEPT ![s] = sn]
    /\ connPc' = [connPc EXCEPT ![s] = "resume"]
    /\ dbq' = Dequeue(dbq)
    /\ checkedOut' = Taken(variant, checkedOut)
    /\ UNCHANGED <<boot, categories, variant, clock, articles, comments, reactions, seq, readyState, inbox, reqs>>

\* The store answers the first statement of the fetch, the SELECT on articles.
\* The statements of one fetch are awaited one after the other outside any
\* transaction; the pg Client's fetch reads all three tables in one statement.
SnapshotArticles(s) ==
    /\ TablesEnsured
    /\ ~SingleConnection(variant)
    /\ connPc[s] = "query"
    /\ snap' = [snap EXCEPT ![s] = [NoSnapshot EXCEPT !.articles = ArticleIds]]
    /\ connPc' = [connPc EXCEPT ![s] = "details"]
    /\ checkedOut' = Taken(variant, checkedOut)
    /\ UNCHANGED <<boot, categories, variant, clock, articles, comments, reactions, seq, readyState, inbox, reqs, dbq>>

\* The store answers the statements that follow: the comments and the reactions
\* of the articles the first statement returned.
SnapshotDetails(s) ==
    /\ TablesEnsured
    /\ connPc[s] = "details"
    /\ \E o \in CommentOrdersOf(variant, snap[s].articles) :
          snap' = [snap EXCEPT ![s] = SnapshotOf(snap[s].articles, o)]
    /\ connPc' = [connPc EXCEPT ![s] = "resume"]
    /\ UNCHANGED <<boot, categories, variant, checkedOut, clock, articles, comments, reactions, seq, readyState, inbox, reqs, dbq>>

\* The snapshot is sent to this socket, then ws.on('message') is registered.
SnapshotType(v) == IF v \in {"sqliteCb", "pgPool"} THEN "ALL_ARTICLES" ELSE "INITIAL_DATA"

SnapshotSend(s) ==
    /\ Running
    /\ connPc[s] = "resume"
    /\ inbox' = SendTo(inbox, s, Event(SnapshotType(variant), 0, 0, 0, 0, "", snap[s]))
    /\ connPc' = [connPc EXCEPT ![s] = "listening"]
    /\ snap' = [snap EXCEPT ![s] = NoSnapshot]
    /\ checkedOut' = Released(variant, "", checkedOut)
    /\ UNCHANGED <<boot, categories, variant, clock, articles, comments, reactions, seq, readyState, reqs, dbq>>

\* The statements of a fetch: the SELECT on articles, and the ones that follow it
\* (per article in getAllArticles, per table in part_001, getAllCategories).
FetchPhases == {"first", "later"}

\* Variant v issues a statement after the SELECT on articles: getAllArticles
\* returns [] at once when there is no article.
HasLaterQuery(v, connect) ==
    \/ articles # {}
    \/ v \in {"sqliteProm", "pgClient"}
    \/ (v = "pgPoolCat" /\ connect)

\* The store fails one of the connect-time queries.
SnapshotFail(s, phase) ==
    /\ Running
    /\ connPc[s] = "query"
    /\ MayRun(Job("conn", s))
    /\ phase = "later" => HasLaterQuery(variant, TRUE)
    /\ connPc' = [connPc EXCEPT ![s] =
                     IF phase = "later" /\ DetailFailureHangs(variant) /\ articles # {}
                     THEN "hung" ELSE "failed"]
    /\ dbq' = Dequeue(dbq)
    /\ checkedOut' = Taken(variant, checkedOut)
    /\ UNCHANGED <<boot, categories, variant, clock, articles, comments, reactions, seq, readyState, snap, inbox, reqs>>

LoadErrorMessage(v) ==
    IF v \in {"sqliteCb", "pgPool"} THEN "Failed to load articles."
    ELSE "Failed to load initial data."

\* The catch of the connection handler: ERROR to this socket, then
\* ws.on('message') is registered all the same.
SnapshotError(s) ==
    /\ Running
    /\ connPc[s] = "failed"
    /\ inbox' = SendTo(inbox, s, ErrorEvent(0, LoadErrorMessage(variant)))
    /\ connPc' = [connPc EXCEPT ![s] = "listening"]
    /\ checkedOut' = Released(variant, StoreUnavailable, checkedOut)
    /\ UNCHANGED <<boot, categories, variant, clock, articles, comments, reactions, seq, readyState, snap, reqs, dbq>>

\* The socket closes: ws removes it from wss.clients, readyState leaves OPEN.
Close(s) ==
    /\ readyState[s] = "OPEN"
    /\ readyState' = [readyState EXCEPT ![s] = "CLOSED"]
    /\ UNCHANGED <<boot, categories, variant, checkedOut, clock, articles, comments, reactions, seq, connPc, snap, inbox, reqs, dbq>>

\* Time passes.  Date.now() is read when a handler starts, so the clock is
\* followed only while another handler can start.
Tick ==
    /\ clock < MaxClock
    /\ Len(reqs) < MaxReqs
    /\ clock' = clock + 1
    /\ UNCHANGED <<boot, categories, variant, checkedOut, articles, comments, reactions, seq, readyState, connPc, snap, inbox, reqs, dbq>>

\* Receive with the await before the broadcast left out: the handler announces
\* the row when it starts, with the id it does not have yet.
ReceiveNoAwait(s, d) ==
    /\ readyState[s] = "OPEN"
    /\ connPc[s] = "listening"
    /\ Len(reqs) < MaxReqs
    /\ reqs' = Append(reqs, Request(s, d, "query"))
    /\ inbox' = IF d.type \in Mutations
                THEN Broadcast(inbox, Event(EventType(d.type), Len(reqs) + 1, 0,
                                            d.articleId, 0, "", NoSnapshot))
                ELSE inbox
    /\ dbq' = Enqueue(dbq, Job("req", Len(reqs) + 1))
    /\ UNCHANGED <<boot, categories, variant, checkedOut, clock, articles, comments, reactions, seq, readyState, connPc, snap>>

\* The message of the ERROR event the default branch sends.
UnknownTypeMessage(t) ==
    IF t = "GET_ALL_ARTICLES" THEN "Unknown message type: GET_ALL_ARTICLES"
    ELSE IF t = Undefined THEN "Unknown message type: undefined"
    ELSE "Unknown message type: <data.type>"

\* The message of the ERROR event a handler's catch sends.
ErrorMessage(v, t, e) ==
    IF v \in {"pgPoolCat", "sqliteCb", "pgPool"}
    THEN "Server error: <error.message>"
    ELSE IF t = "POST_REACTION"
         THEN IF v = "pgClient" /\ e = "23505"
              THEN "You have already reacted with this type."
              ELSE "Failed to post reaction due to server error."
         ELSE "Invalid message format or server error."

\* ws.on('message'), up to its first await: JSON.parse, the switch, the
\* handler's own Date.now(), and the statement handed to the store.  A type the
\* switch has no case for is answered in the default branch at once.
Receive(s, d) ==
    /\ readyState[s] = "OPEN"
    /\ connPc[s] = "listening"
    /\ Len(reqs) < MaxReqs
    /\ IF HasCase(variant, d.type)
       THEN /\ reqs' = Append(reqs, Request(s, d, "query"))
            /\ inbox' = inbox
            /\ dbq' = Enqueue(dbq, Job("req", Len(reqs) + 1))
       ELSE IF RepliesUnknown(variant)
       THEN /\ reqs' = Append(reqs, Request(s, d, "done"))
            /\ inbox' = SendTo(inbox, s, ErrorEvent(Len(reqs) + 1, UnknownTypeMessage(d.type)))
            /\ dbq' = dbq
       ELSE /\ reqs' = Append(reqs, [Request(s, d, "done") EXCEPT !.outcome = "ignored"])
            /\ inbox' = inbox
            /\ dbq' = dbq
    /\ UNCHANGED <<boot, categories, variant, checkedOut, clock, articles, comments, reactions, seq, readyState, connPc, snap>>

\* ReceiveUnparseable with the try/catch around JSON.parse left out: the
\* SyntaxError leaves the handler, nothing is sent, and the socket goes down
\* with the process.
ReceiveUnparseableUncaught(s) ==
    /\ readyState[s] = "OPEN"
    /\ connPc[s] = "listening"
    /\ Len(reqs) < MaxReqs
    /\ reqs' = Append(reqs, [Request(s, NoData, "done") EXCEPT !.parsed = FALSE])
    /\ readyState' = [readyState EXCEPT ![s] = "CLOSED"]
    /\ UNCHANGED <<boot, categories, variant, checkedOut, clock, articles, comments, reactions, seq, connPc, snap, inbox, dbq>>

\* ws.on('message') with a payload JSON.parse throws on: the catch of the
\* handler sends its ERROR event, and nothing is handed to the store.
ReceiveUnparseable(s) ==
    /\ readyState[s] = "OPEN"
    /\ connPc[s] = "listening"
    /\ Len(reqs) < MaxReqs
    /\ reqs' = Append(reqs, [Request(s, NoData, "done") EXCEPT !.parsed = FALSE])
    /\ inbox' = SendTo(inbox, s, ErrorEvent(Len(reqs) + 1, ErrorMessage(variant, "", "SyntaxError")))
    /\ UNCHANGED <<boot, categories, variant, checkedOut, clock, articles, comments, reactions, seq, readyState, connPc, snap, dbq>>

\* A message arrives on a socket whose connection handler is still awaiting its
\* fetch: ws emits 'message', no listener is registered yet, and the payload is
\* gone.
ReceiveEarly(s, d) ==
    /\ readyState[s] = "OPEN"
    /\ connPc[s] \in {"query", "resume", "failed", "hung"}
    /\ Len(reqs) < MaxReqs
    /\ reqs' = Append(reqs, [Request(s, d, "done") EXCEPT !.outcome = "dropped",
                                                          !.early = TRUE])
    /\ UNCHANGED <<boot, categories, variant, checkedOut, clock, articles, comments, reactions, seq, readyState, connPc, snap, inbox, dbq>>

\* The store executes the handler's statement: the INSERT with its constraints,
\* or the reads of getAllArticles.
\* The author a comment is stored and announced with.
AuthorOf(v, d) ==
    IF DefaultsAuthor(v) /\ d.clientId \in {"", Undefined} THEN "Anonymous"
    ELSE d.clientId

NewRow(q, id, stamp) ==
    CASE q.data.type = "PUBLISH_ARTICLE" ->
            [id |-> id, title |-> q.data.title, content |-> q.data.content,
             timestamp |-> stamp,
             category_id |-> IF HasCategories(variant) THEN q.data.category ELSE 0]
      [] q.data.type = "POST_COMMENT" ->
            [id |-> id, article_id |-> q.data.articleId, userName |-> AuthorOf(variant, q.data),
             commentText |-> q.data.content, timestamp |-> stamp]
      [] q.data.type = "POST_REACTION" ->
            [id |-> id, article_id |-> q.data.articleId, clientId |-> q.data.clientId,
             type |-> q.data.rtype, timestamp |-> stamp]

\* The rows of a table after a statement that puts row in the place of what the
\* table held.
InsertReplacing(rows, row) == {row}

\* The rows of a table after INSERT of row.
Insert(rows, row) == rows \cup {row}

DbExec(r) ==
    /\ TablesEnsured
    /\ r \in DOMAIN reqs
    /\ reqs[r].pc = "query"
    /\ MayRun(Job("req", r))
    /\ LET q == reqs[r]
           t == TableOf(q.data.type)
       IN  IF t = "none"
           THEN /\ \E sn \in Snapshots(variant) :
                      reqs' = [reqs EXCEPT ![r].pc = "resume", ![r].result = sn]
                /\ UNCHANGED <<articles, comments, reactions, seq>>
           ELSE LET e == InsertError(variant, q.data, q.now)
                    id == seq[t] + 1
                    row == NewRow(q, id, StampOf(variant, q.data, q.now)[1])
                IN  /\ seq' = IF e = "" \/ IsPostgres(variant)
                              THEN [seq EXCEPT ![t] = id] ELSE seq
                    /\ articles' = IF e = "" /\ t = "articles"
                                   THEN Insert(articles, row) ELSE articles
                    /\ comments' = IF e = "" /\ t = "comments"
                                   THEN Insert(comments, row) ELSE comments
                    /\ reactions' = IF e = "" /\ t = "reactions"
                                    THEN Insert(reactions, row) ELSE reactions
                    /\ reqs' = [reqs EXCEPT ![r].pc = "resume",
                                            ![r].err = e,
                                            ![r].row = IF e = "" THEN id ELSE 0,
                                            ![r].existed = q.data.articleId \in ArticleIds]
    /\ dbq' = Dequeue(dbq)
    /\ checkedOut' = Taken(variant, checkedOut)
    /\ UNCHANGED <<boot, categories, variant, clock, readyState, connPc, snap, inbox>>

\* The event a handler broadcasts for the row its statement inserted.
NewEvent(v, r, q) ==
    [Event(EventType(q.data.type), r,
           IF q.data.type = "PUBLISH_ARTICLE" /\ SpreadsArticle(v) /\ q.data.articleId # 0
           THEN q.data.articleId ELSE q.row,
           IF q.data.type = "PUBLISH_ARTICLE" THEN q.row ELSE q.data.articleId,
           StampOf(v, q.data, q.now)[1], "", NoSnapshot)
        EXCEPT !.author = IF q.data.type = "POST_COMMENT"
                          THEN AuthorOf(v, q.data) ELSE "",
               !.category = IF q.data.type = "PUBLISH_ARTICLE" /\ HasCategories(v)
                            THEN q.data.category ELSE 0]

\* The handler throws after its await: the statement failed, or it reads a
\* property of the undefined the promisified db.run resolved to.
Throws(v, q) == q.err # "" \/ RunResolvesUndefined(v)

\* The store fails the handler's statement (the connection is lost, the disk
\* cannot be read): the awaited promise rejects and no row is written.  In
\* getAllArticles the statement that fails is the SELECT on articles or one of
\* those that follow it.
DbFail(r, phase) ==
    /\ Running
    /\ r \in DOMAIN reqs
    /\ reqs[r].pc = "query"
    /\ MayRun(Job("req", r))
    /\ phase = "later" =>
          reqs[r].data.type = "GET_ALL_ARTICLES" /\ HasLaterQuery(variant, FALSE)
    /\ reqs' = [reqs EXCEPT ![r].pc = IF phase = "later" /\ DetailFailureHangs(variant)
                                      THEN "hung" ELSE "resume",
                            ![r].err = StoreUnavailable,
                            ![r].existed = reqs[r].data.articleId \in ArticleIds]
    /\ dbq' = Dequeue(dbq)
    /\ checkedOut' = Taken(variant, checkedOut)
    /\ UNCHANGED <<boot, categories, variant, clock, articles, comments, reactions, seq, readyState, connPc, snap, inbox>>

\* pool.connect() rejects: the handler's function throws before its try, and
\* no client has left the pool.
ConnectFail(r) ==
    /\ Running
    /\ UsesPool(variant)
    /\ r \in DOMAIN reqs
    /\ reqs[r].pc = "query"
    /\ reqs' = [reqs EXCEPT ![r].pc = "resume",
                            ![r].err = PoolConnectFailed,
                            ![r].existed = reqs[r].data.articleId \in ArticleIds]
    /\ UNCHANGED <<boot, categories, variant, checkedOut, clock, articles, comments, reactions, seq, readyState, connPc, snap, inbox, dbq>>

\* The continuation after the await, when client.send throws for the sockets
\* in F during the fan-out: the reply, the catch's ERROR, or the fan-out and,
\* where a throw ends it, the catch's ERROR after it.
Continue(r, F) ==
    /\ Running
    /\ r \in DOMAIN reqs
    /\ reqs[r].pc = "resume"
    /\ LET q == reqs[r]
           aborted == ~GuardsSend(variant) /\ F \cap OpenSessions # {}
       IN  /\ inbox' =
                IF Throws(variant, q)
                THEN SendTo(inbox, q.sess, ErrorEvent(r, ErrorMessage(variant, q.data.type, q.err)))
                ELSE IF q.data.type = "GET_ALL_ARTICLES"
                THEN SendTo(inbox, q.sess, Event("ALL_ARTICLES", r, 0, 0, 0, "", q.result))
                ELSE IF aborted
                THEN SendTo(FanOut(inbox, NewEvent(variant, r, q), F), q.sess,
                            ErrorEvent(r, ErrorMessage(variant, q.data.type, "")))
                ELSE FanOut(inbox, NewEvent(variant, r, q), F)
           /\ reqs' = [reqs EXCEPT ![r].pc = "done", ![r].open = OpenSessions,
                                   ![r].later = NotYetConnected,
                                   ![r].threw = IF Throws(variant, q)
                                                   \/ q.data.type = "GET_ALL_ARTICLES"
                                                THEN {} ELSE F \cap OpenSessions,
                                   ![r].outcome =
                                       IF Throws(variant, q) THEN "error"
                                       ELSE IF q.data.type = "GET_ALL_ARTICLES" THEN "reply"
                                       ELSE IF aborted THEN "aborted"
                                       ELSE "broadcast"]
    /\ checkedOut' = Released(variant, reqs[r].err, checkedOut)
    /\ UNCHANGED <<boot, categories, variant, clock, articles, comments, reactions, seq, readyState, connPc, snap, dbq>>

\* The continuation after the await: broadcast, reply, or the catch's ERROR.
Resume(r) == Continue(r, {})

\* The continuation of a handler that broadcasts, with client.send throwing for
\* another open socket than the requester's.
ResumeSendThrows(r) ==
    /\ r \in DOMAIN reqs
    /\ reqs[r].data.type \in Mutations
    /\ ~Throws(variant, reqs[r])
    /\ \E f \in OpenSessions \ {reqs[r].sess} : Continue(r, {f})

\* ------------------------------------------------------------ behaviours
Init ==
    /\ variant \in Variants
    /\ boot = "up"
    /\ categories = Seeded(variant, {})
    /\ clock = 1
    /\ articles = IF SeedsSampleArticle(variant) THEN {SampleArticle} ELSE {}
    /\ comments = {}
    /\ reactions = {}
    /\ seq = [articles |-> IF SeedsSampleArticle(variant) THEN 1 ELSE 0,
              comments |-> 0, reactions |-> 0]
    /\ readyState = [s \in Sessions |-> "CONNECTING"]
    /\ connPc = [s \in Sessions |-> "idle"]
    /\ snap = [s \in Sessions |-> NoSnapshot]
    /\ inbox = [s \in Sessions |-> << >>]
    /\ reqs = << >>
    /\ dbq = << >>
    /\ checkedOut = 0

Next ==
    \/ \E s \in Sessions : Connect(s)
    \/ \E s \in Sessions : SnapshotQuery(s)
    \/ \E s \in Sessions : SnapshotSend(s)
    \/ \E s \in Sessions : Close(s)
    \/ \E s \in Sessions : \E d \in Inputs : Receive(s, d)
    \/ \E r \in 1..MaxReqs : DbExec(r)
    \/ \E r \in 1..MaxReqs : Resume(r)
    \/ Tick

Spec == Init /\ [][Next]_vars

\* The server under clients that stay connected and only publish, comment and
\* react, with the clock standing still: a well-formed PUBLISH_ARTICLE, one
\* without a title, and a POST_COMMENT and a POST_REACTION on article 1, which the
\* store accepts or rejects according to what it holds when they run.
NewsInputs ==
    { d \in PublishInputs : d.title # "" /\ d.timestamp # << >> }
    \cup { d \in CommentInputs \cup ReactionInputs : d.articleId = 1 }

NextNews ==
    \/ \E s \in Sessions : Connect(s)
    \/ \E s \in Sessions : SnapshotQuery(s)
    \/ \E s \in Sessions : SnapshotSend(s)
    \/ \E s \in Sessions : \E d \in NewsInputs : Receive(s, d)
    \/ \E r \in 1..MaxReqs : DbExec(r)
    \/ \E r \in 1..MaxReqs : Resume(r)

SpecNews == Init /\ [][NextNews]_vars

\* The server when things go wrong around it: the store may fail any statement,
\* client.send may throw during a fan-out, and clients send payloads that do not
\* parse, types the switch does not know, and articles stamped by themselves with
\* an older time than the one before.  Sockets stay connected and the clock
\* stands still.
OlderPublish == Msg("PUBLISH_ARTICLE", "T", "B", 0, "", "", <<ClientStamp - 1>>)

FaultInputs ==
    { d \in PublishInputs : d.title = "T" /\ d.timestamp # << >> }
    \cup {OlderPublish} \cup QueryInputs \cup UnknownInputs

NextFaults ==
    \/ \E s \in Sessions : Connect(s)
    \/ \E s \in Sessions : SnapshotQuery(s)
    \/ \E s \in Sessions : \E phase \in FetchPhases : SnapshotFail(s, phase)
    \/ \E s \in Sessions : SnapshotSend(s)
    \/ \E s \in Sessions : SnapshotError(s)
    \/ \E s \in Sessions : \E d \in FaultInputs : Receive(s, d)
    \/ \E s \in Sessions : ReceiveUnparseable(s)
    \/ \E r \in 1..MaxReqs : DbExec(r)
    \/ \E r \in 1..MaxReqs : \E phase \in FetchPhases : DbFail(r, phase)
    \/ \E r \in 1..MaxReqs : Resume(r)
    \/ \E r \in 1..MaxReqs : ResumeSendThrows(r)

SpecFaults == Init /\ [][NextFaults]_vars

\* The server under clients that stay connected and send, besides a well-formed
\* PUBLISH_ARTICLE and a POST_COMMENT on article 1, payloads that are not JSON.
ParseInputs ==
    { d \in PublishInputs : d.title = "T" /\ d.timestamp # << >> }
    \cup { d \in CommentInputs : d.articleId = 1 }

NextParse ==
    \/ \E s \in Sessions : Connect(s)
    \/ \E s \in Sessions : SnapshotQuery(s)
    \/ \E s \in Sessions : SnapshotSend(s)
    \/ \E s \in Sessions : \E d \in ParseInputs : Receive(s, d)
    \/ \E s \in Sessions : ReceiveUnparseable(s)
    \/ \E r \in 1..MaxReqs : DbExec(r)
    \/ \E r \in 1..MaxReqs : Resume(r)

SpecParse == Init /\ [][NextParse]_vars

\* The server under clients that stay connected, publish, comment and react on
\* article 1, and ask for all articles.
ReadInputs ==
    { d \in PublishInputs : d.title = "T" /\ d.timestamp # << >> }
    \cup { d \in CommentInputs \cup ReactionInputs : d.articleId = 1 }
    \cup QueryInputs

NextReads ==
    \/ \E s \in Sessions : Connect(s)
    \/ \E s \in Sessions : SnapshotQuery(s)
    \/ \E s \in Sessions : SnapshotSend(s)
    \/ \E s \in Sessions : \E d \in ReadInputs : Receive(s, d)
    \/ \E r \in 1..MaxReqs : DbExec(r)
    \/ \E r \in 1..MaxReqs : Resume(r)

SpecReads == Init /\ [][NextReads]_vars

\* The server under clients that come and go: they close their socket at any
\* moment, send a PUBLISH_ARTICLE or a GET_ALL_ARTICLES, and may send the
\* PUBLISH_ARTICLE as soon as the socket is open.
ClientInputs ==
    { d \in PublishInputs : d.title = "T" /\ d.timestamp # << >> } \cup QueryInputs

NextClients ==
    \/ \E s \in Sessions : Connect(s)
    \/ \E s \in Sessions : SnapshotQuery(s)
    \/ \E s \in Sessions : SnapshotSend(s)
    \/ \E s \in Sessions : Close(s)
    \/ \E s \in Sessions : \E d \in ClientInputs : Receive(s, d)
    \/ \E s \in Sessions : \E d \in ClientInputs \ QueryInputs : ReceiveEarly(s, d)
    \/ \E r \in 1..MaxReqs : DbExec(r)
    \/ \E r \in 1..MaxReqs : Resume(r)

SpecClients == Init /\ [][NextClients]_vars

\* The server under clients that fill the fields of an article and of a comment
\* their own way: an article with an id of its own, a comment without an author.
FieldInputs ==
    { d \in PublishInputs : d.title = "T" /\ d.timestamp # << >> }
        \cup {ForgedPublish}
        \cup CategorisedPublish
        \cup { d \in CommentInputs : d.articleId = 1 }
        \cup BlankAuthorInputs

NextFields ==
    \/ \E s \in Sessions : Connect(s)
    \/ \E s \in Sessions : SnapshotQuery(s)
    \/ \E s \in Sessions : SnapshotSend(s)
    \/ \E s \in Sessions : \E d \in FieldInputs : Receive(s, d)
    \/ \E r \in 1..MaxReqs : DbExec(r)
    \/ \E r \in 1..MaxReqs : Resume(r)

SpecFields == Init /\ [][NextFields]_vars

\* The server started on a store an earlier run left an article in, under
\* clients that comment on it while time passes.
InitStocked ==
    /\ variant \in Variants
    /\ boot = "up"
    /\ categories = Seeded(variant, {})
    /\ clock = 1
    /\ articles = {SampleArticle}
    /\ comments = {}
    /\ reactions = {}
    /\ seq = [articles |-> 1, comments |-> 0, reactions |-> 0]
    /\ readyState = [s \in Sessions |-> "CONNECTING"]
    /\ connPc = [s \in Sessions |-> "idle"]
    /\ snap = [s \in Sessions |-> NoSnapshot]
    /\ inbox = [s \in Sessions |-> << >>]
    /\ reqs = << >>
    /\ dbq = << >>
    /\ checkedOut = 0

NextOrder ==
    \/ \E s \in Sessions : Connect(s)
    \/ \E s \in Sessions : SnapshotQuery(s)
    \/ \E s \in Sessions : SnapshotSend(s)
    \/ \E s \in Sessions : \E d \in { c \in CommentInputs : c.articleId = 1 } : Receive(s, d)
    \/ \E r \in 1..MaxReqs : DbExec(r)
    \/ \E r \in 1..MaxReqs : Resume(r)
    \/ Tick

SpecOrder == InitStocked /\ [][NextOrder]_vars

\* The server started on a store that holds an article, under clients that
\* react to it.
NextReactions ==
    \/ \E s \in Sessions : Connect(s)
    \/ \E s \in Sessions : SnapshotQuery(s)
    \/ \E s \in Sessions : SnapshotSend(s)
    \/ \E s \in Sessions : \E d \in VariedReactions : Receive(s, d)
    \/ \E r \in 1..MaxReqs : DbExec(r)
    \/ \E r \in 1..MaxReqs : Resume(r)

SpecReactions == InitStocked /\ [][NextReactions]_vars

\* The server started on a store that holds an article, under clients that
\* publish and comment while other sessions' fetches are under way.
FetchInputs ==
    { d \in PublishInputs : d.title = "T" /\ d.timestamp # << >> }
        \cup { d \in CommentInputs : d.articleId = 1 /\ d.timestamp # << >> }

NextFetch ==
    \/ \E s \in Sessions : Connect(s)
    \/ \E s \in Sessions : SnapshotQuery(s)
    \/ \E s \in Sessions : SnapshotArticles(s)
    \/ \E s \in Sessions : SnapshotDetails(s)
    \/ \E s \in Sessions : SnapshotSend(s)
    \/ \E s \in Sessions : \E d \in FetchInputs : Receive(s, d)
    \/ \E r \in 1..MaxReqs : DbExec(r)
    \/ \E r \in 1..MaxReqs : Resume(r)

SpecFetch == InitStocked /\ [][NextFetch]_vars

\* The server under clients that publish and ask for the articles while the
\* store fails some statements and the pool refuses some clients.
PoolInputs ==
    { d \in PublishInputs : d.title = "T" /\ d.timestamp # << >> } \cup QueryInputs

NextPool ==
    \/ \E s \in Sessions : Connect(s)
    \/ \E s \in Sessions : SnapshotQuery(s)
    \/ \E s \in Sessions : \E phase \in FetchPhases : SnapshotFail(s, phase)
    \/ \E s \in Sessions : SnapshotSend(s)
    \/ \E s \in Sessions : SnapshotError(s)
    \/ \E s \in Sessions : \E d \in PoolInputs : Receive(s, d)
    \/ \E r \in 1..MaxReqs : DbExec(r)
    \/ \E r \in 1..MaxReqs : \E phase \in FetchPhases : DbFail(r, phase)
    \/ \E r \in 1..MaxReqs : ConnectFail(r)
    \/ \E r \in 1..MaxReqs : Resume(r)

SpecPool == Init /\ [][NextPool]_vars

\* ---- start-up
\* The store is reached: pool.connect(), pgClient.connect(), or the callback of
\* new sqlite3.Database without an error.
StartConnect ==
    /\ boot = "connect"
    /\ boot' = "schema"
    /\ UNCHANGED <<categories, variant, checkedOut, clock, articles, comments, reactions, seq, readyState, connPc, snap, inbox, reqs, dbq>>

\* The CREATE TABLE IF NOT EXISTS statements succeed.
CreateTables ==
    /\ boot = "schema"
    /\ boot' = "seed"
    /\ UNCHANGED <<categories, variant, checkedOut, clock, articles, comments, reactions, seq, readyState, connPc, snap, inbox, reqs, dbq>>

\* The store cannot be reached, or a CREATE TABLE fails: process.exit(1), which
\* closes every socket, or only console.error.
StartupFail ==
    /\ boot \in {"connect", "schema"}
    /\ boot' = IF ExitsOnStartupFailure(variant) THEN "exited" ELSE "degraded"
    /\ readyState' = [s \in Sessions |->
                         IF ExitsOnStartupFailure(variant) /\ readyState[s] = "OPEN"
                         THEN "CLOSED" ELSE readyState[s]]
    /\ UNCHANGED <<categories, variant, checkedOut, clock, articles, comments, reactions, seq, connPc, snap, inbox, reqs, dbq>>

\* The default categories and the sample article are inserted.
SeedDefaults ==
    /\ boot = "seed"
    /\ boot' = "up"
    /\ categories' = Seeded(variant, categories)
    /\ articles' = IF SeedsSampleArticle(variant) /\ articles = {}
                   THEN {[SampleArticle EXCEPT !.id = seq.articles + 1]} ELSE articles
    /\ seq' = IF SeedsSampleArticle(variant) /\ articles = {}
              THEN [seq EXCEPT !.articles = @ + 1] ELSE seq
    /\ UNCHANGED <<variant, checkedOut, clock, comments, reactions, readyState, connPc, snap, inbox, reqs, dbq>>

\* The process is started again on the same store; nothing of the sessions and
\* handlers of the run before is left.
Restart ==
    /\ boot \in {"up", "degraded", "exited"}
    /\ boot' = "connect"
    /\ readyState' = [s \in Sessions |-> "CONNECTING"]
    /\ connPc' = [s \in Sessions |-> "idle"]
    /\ snap' = [s \in Sessions |-> NoSnapshot]
    /\ inbox' = [s \in Sessions |-> << >>]
    /\ reqs' = << >>
    /\ dbq' = << >>
    /\ checkedOut' = 0
    /\ UNCHANGED <<categories, variant, clock, articles, comments, reactions, seq>>

\* A category that is none of the defaults.
OtherCategory == "Local"

\* The process starts on a store that holds any of the default categories and
\* possibly another one; the server listens while it starts up.
InitStartup ==
    /\ variant \in Variants
    /\ boot = "connect"
    /\ categories \in IF HasCategories(variant)
                      THEN SUBSET (DefaultCategories \cup {OtherCategory}) ELSE {{}}
    /\ clock = 1
    /\ articles = {}
    /\ comments = {}
    /\ reactions = {}
    /\ seq = [articles |-> 0, comments |-> 0, reactions |-> 0]
    /\ readyState = [s \in Sessions |-> "CONNECTING"]
    /\ connPc = [s \in Sessions |-> "idle"]
    /\ snap = [s \in Sessions |-> NoSnapshot]
    /\ inbox = [s \in Sessions |-> << >>]
    /\ reqs = << >>
    /\ dbq = << >>
    /\ checkedOut = 0

NextStartup ==
    \/ StartConnect
    \/ CreateTables
    \/ StartupFail
    \/ SeedDefaults
    \/ Restart
    \/ \E s \in Sessions : Connect(s)
    \/ \E s \in Sessions : SnapshotQuery(s)
    \/ \E s \in Sessions : SnapshotSend(s)

SpecStartup == InitStartup /\ [][NextStartup]_vars

\* ------------------------------------------------- vocabulary of the claims
NewTypes == {"NEW_ARTICLE", "NEW_COMMENT", "NEW_REACTION"}

Done(r) == reqs[r].pc = "done"

Inserted(r) == reqs[r].row # 0

IsType(r, t) == reqs[r].data.type = t

\* positions in session s's inbox of the events request r caused
EventsOf(s, r) == { k \in DOMAIN inbox[s] : inbox[s][k].req = r }

\* positions in session s's inbox of the NEW_* events request r caused
NewsOf(s, r) == { k \in EventsOf(s, r) : inbox[s][k].type \in NewTypes }

Announced(r) == \E s \in Sessions : NewsOf(s, r) # {}

SameTriple(i, j) ==
    /\ reqs[i].data.articleId = reqs[j].data.articleId
    /\ reqs[i].data.clientId = reqs[j].data.clientId
    /\ reqs[i].data.rtype = reqs[j].data.rtype

\* Request r ended in an ERROR event sent to its own session and in nothing else:
\* no NEW_* event anywhere, no event in another session's inbox, and exactly one
\* ERROR in the sender's inbox when its socket was open.
RejectedToSenderOnly(r) ==
    /\ reqs[r].outcome = "error"
    /\ ~Announced(r)
    /\ \A s \in Sessions \ {reqs[r].sess} : EventsOf(s, r) = {}
    /\ reqs[r].sess \in reqs[r].open =>
          /\ Cardinality(EventsOf(reqs[r].sess, r)) = 1
          /\ \A k \in EventsOf(reqs[r].sess, r) : inbox[reqs[r].sess][k].type = "ERROR"

RowIds(t) ==
    CASE t = "articles" -> { a.id : a \in articles }
      [] t = "comments" -> { c.id : c \in comments }
      [] t = "reactions" -> { x.id : x \in reactions }
      [] OTHER -> {}

NewsTable(t) ==
    CASE t = "NEW_ARTICLE" -> "articles"
      [] t = "NEW_COMMENT" -> "comments"
      [] t = "NEW_REACTION" -> "reactions"
      [] OTHER -> "none"

\* ------------------------------------------------------------------ claims

\* C1: in every reachable state the reactions table holds at most one row for
\* each (article id, client id, reaction type).
C1_OneRowPerTriple ==
    \A x \in reactions : \A y \in reactions :
        (x.article_id = y.article_id /\ x.clientId = y.clientId /\ x.type = y.type)
            => x = y

\* C2: once a POST_REACTION has succeeded (row inserted, NEW_REACTION broadcast),
\* a POST_REACTION with the same triple that arrives later inserts no row, is
\* announced to no session, and its sender alone gets the ERROR event with the
\* message 'You have already reacted with this type.'.
C2_DuplicateRejected ==
    \A i \in DOMAIN reqs : \A j \in DOMAIN reqs :
        ( /\ IsType(i, "POST_REACTION") /\ IsType(j, "POST_REACTION")
          /\ SameTriple(i, j)
          /\ i \in reqs[j].prior
          /\ Inserted(i) /\ reqs[i].outcome = "broadcast"
          /\ Done(j) )
        => /\ ~Inserted(j)
           /\ RejectedToSenderOnly(j)
           /\ \A k \in EventsOf(reqs[j].sess, j) :
                 inbox[reqs[j].sess][k].message = "You have already reacted with this type."

\* C3: of two POST_REACTION requests with the same triple on an existing article
\* that are in flight together, exactly one inserts a row and is broadcast, and
\* the other is rejected without a row and without a broadcast.
C3_ConcurrentDuplicates ==
    \A i \in DOMAIN reqs : \A j \in DOMAIN reqs :
        ( /\ i < j
          /\ IsType(i, "POST_REACTION") /\ IsType(j, "POST_REACTION")
          /\ SameTriple(i, j)
          /\ i \notin reqs[j].prior
          /\ reqs[i].existed /\ reqs[j].existed
          /\ Done(i) /\ Done(j) )
        => \E w \in {i, j} : \E l \in {i, j} \ {w} :
              /\ Inserted(w) /\ reqs[w].outcome = "broadcast"
              /\ ~Inserted(l) /\ reqs[l].outcome = "error" /\ ~Announced(l)

\* C4: whenever a session has been sent a NEW_ARTICLE, NEW_COMMENT or NEW_REACTION
\* event, the statement of the request that announced it has completed and the
\* row that statement inserted is in the event's table.
C4_PersistThenPublish ==
    \A s \in Sessions : \A k \in DOMAIN inbox[s] :
        inbox[s][k].type \in NewTypes =>
            /\ inbox[s][k].req \in DOMAIN reqs
            /\ reqs[inbox[s][k].req].pc = "done"
            /\ Inserted(inbox[s][k].req)
            /\ TableOf(reqs[inbox[s][k].req].data.type) = NewsTable(inbox[s][k].type)
            /\ reqs[inbox[s][k].req].row \in RowIds(NewsTable(inbox[s][k].type))

\* C4 witness: one session has been sent a NEW_ARTICLE and a NEW_COMMENT on it.
C4_Witness ==
    \E s \in Sessions : \E k \in DOMAIN inbox[s] : \E m \in DOMAIN inbox[s] :
        /\ inbox[s][k].type = "NEW_ARTICLE"
        /\ inbox[s][m].type = "NEW_COMMENT"
        /\ inbox[s][m].articleId = inbox[s][k].id

\* C5: for every mutation request that inserted its row, every session whose
\* socket was open when the handler's continuation ran holds exactly one NEW_*
\* event of that request, and the requesting session holds no other event of it.
C5_OneEventPerOpenSession ==
    \A r \in DOMAIN reqs :
        (Done(r) /\ reqs[r].data.type \in Mutations /\ Inserted(r)) =>
            /\ \A s \in reqs[r].open :
                  /\ Cardinality(NewsOf(s, r)) = 1
                  /\ \A k \in NewsOf(s, r) :
                        /\ inbox[s][k].type = EventType(reqs[r].data.type)
                        /\ inbox[s][k].id = reqs[r].row
            /\ EventsOf(reqs[r].sess, r) = NewsOf(reqs[r].sess, r)

\* C6: two requests of one session are persisted and announced in the order the
\* server received them: the earlier one's row has the smaller id when both insert
\* into the same table, and in every inbox that holds an event of each, the
\* earlier request's event comes first.
C6_SessionOrder ==
    \A i \in DOMAIN reqs : \A j \in DOMAIN reqs :
        (i < j /\ reqs[i].sess = reqs[j].sess) =>
            /\ ( /\ Inserted(i) /\ Inserted(j)
                 /\ TableOf(reqs[i].data.type) = TableOf(reqs[j].data.type) )
               => reqs[i].row < reqs[j].row
            /\ \A s \in Sessions : \A k \in EventsOf(s, i) : \A m \in EventsOf(s, j) : k < m

\* C7: a POST_COMMENT whose articleId named no article when its statement ran
\* inserts no comment row, is announced to no session, and its sender alone gets
\* an ERROR event.
C7_CommentOnMissingArticle ==
    \A r \in DOMAIN reqs :
        (IsType(r, "POST_COMMENT") /\ Done(r) /\ ~reqs[r].existed) =>
            /\ ~Inserted(r)
            /\ RejectedToSenderOnly(r)

\* C8: every comment row and every reaction row references an article that is in
\* the store, and a POST_REACTION whose articleId named no article is rejected
\* with an ERROR to its sender, without a row and without a broadcast.
C8_ReferentialIntegrity ==
    /\ \A c \in comments : c.article_id \in ArticleIds
    /\ \A x \in reactions : x.article_id \in ArticleIds
    /\ \A r \in DOMAIN reqs :
          (IsType(r, "POST_REACTION") /\ Done(r) /\ ~reqs[r].existed) =>
              /\ ~Inserted(r)
              /\ RejectedToSenderOnly(r)

\* C9: a PUBLISH_ARTICLE whose title or content is missing or empty inserts no
\* article row, is announced to no session, and its sender gets an ERROR event.
C9_PublishValidated ==
    \A r \in DOMAIN reqs :
        ( /\ IsType(r, "PUBLISH_ARTICLE")
          /\ ( reqs[r].data.title \in {"", Undefined}
               \/ reqs[r].data.content \in {"", Undefined} ) )
        => /\ ~Inserted(r)
           /\ Done(r) => RejectedToSenderOnly(r)

\* C10: the timestamp stored for an article, and the one broadcast with it, is
\* the server's clock reading while the request was processed, whatever timestamp
\* the client's payload carried.
C10_ServerTimestamp ==
    \A r \in DOMAIN reqs :
        (IsType(r, "PUBLISH_ARTICLE") /\ Inserted(r)) =>
            /\ \A a \in articles :
                  a.id = reqs[r].row => a.timestamp \in reqs[r].now..clock
            /\ \A s \in Sessions : \A k \in NewsOf(s, r) :
                  inbox[s][k].timestamp \in reqs[r].now..clock

\* the article row request r inserted
ArticleOf(r) == CHOOSE a \in articles : a.id = reqs[r].row

PublishedBy(r) == IsType(r, "PUBLISH_ARTICLE") /\ Inserted(r)

\* C11: every successful PUBLISH_ARTICLE gets an article id that no other row and
\* no other request has, the NEW_ARTICLE events carry that id, and of two
\* publishes of which the first had finished when the second arrived, the second
\* article's timestamp is not smaller than the first's.
C11_FreshIdsOrderedStamps ==
    \A j \in DOMAIN reqs :
        PublishedBy(j) =>
            /\ Cardinality({ a \in articles : a.id = reqs[j].row }) = 1
            /\ SeedsSampleArticle(variant) => reqs[j].row # SampleArticle.id
            /\ \A i \in DOMAIN reqs : (i # j /\ PublishedBy(i)) => reqs[i].row # reqs[j].row
            /\ \A s \in Sessions : \A k \in NewsOf(s, j) : inbox[s][k].id = reqs[j].row
            /\ \A i \in reqs[j].prior :
                  PublishedBy(i) => ArticleOf(i).timestamp <= ArticleOf(j).timestamp

\* request r got as far as its fan-out
FannedOut(r) == reqs[r].outcome \in {"broadcast", "aborted"}

\* C12: when a request's event is fanned out and the send to some socket throws,
\* or some socket is not open, every other open socket still holds the event
\* exactly once and no socket holds an ERROR event of that request.
C12_FanOutSurvivesThrow ==
    \A r \in DOMAIN reqs :
        FannedOut(r) =>
            /\ \A s \in reqs[r].open \ reqs[r].threw : Cardinality(NewsOf(s, r)) = 1
            /\ \A s \in Sessions : EventsOf(s, r) = NewsOf(s, r)

\* the store: its rows and its id sequences
store == <<articles, comments, reactions, seq>>

\* this step starts the handler of a payload that does not parse
UnparseableArrives == Len(reqs') = Len(reqs) + 1 /\ ~reqs'[Len(reqs')].parsed

RequestTypes == Mutations \cup {"GET_ALL_ARTICLES"}

\* C14: a parsed request whose type is missing or is none of PUBLISH_ARTICLE,
\* POST_COMMENT, POST_REACTION and GET_ALL_ARTICLES is finished at once, inserts
\* nothing, is announced to no session, and its sender alone gets one ERROR event.
C14_UnknownTypeAnswered ==
    \A r \in DOMAIN reqs :
        (reqs[r].parsed /\ reqs[r].data.type \notin RequestTypes) =>
            /\ Done(r)
            /\ ~Inserted(r)
            /\ RejectedToSenderOnly(r)

\* the store rejected a statement of request r
StoreFailed(r) == reqs[r].err # ""

\* C15: a request whose statement the store rejects never leaves its handler
\* waiting without an answer, and once it has finished it has inserted nothing,
\* its sender's socket is still open, its sender alone holds one ERROR event of
\* it and no other session holds any event of it.
C15_StoreFailureAnswered ==
    \A r \in DOMAIN reqs :
        StoreFailed(r) =>
            /\ reqs[r].pc \in {"resume", "done"}
            /\ Done(r) =>
                  /\ ~Inserted(r)
                  /\ RejectedToSenderOnly(r)
                  /\ readyState[reqs[r].sess] = "OPEN"

\* positions in session s's inbox of the events of type t
OfType(s, t) == { k \in DOMAIN inbox[s] : inbox[s][k].type = t }

\* C16: a session whose connection handler has finished holds exactly one
\* INITIAL_DATA event, with articles that are in the store, and a session whose
\* handler has not finished holds none.
C16_OneInitialData ==
    \A s \in Sessions :
        /\ connPc[s] = "listening" =>
              /\ Cardinality(OfType(s, "INITIAL_DATA")) = 1
              /\ \A k \in OfType(s, "INITIAL_DATA") :
                    inbox[s][k].snapshot.articles \subseteq ArticleIds
        /\ connPc[s] # "listening" => OfType(s, "INITIAL_DATA") = {}

\* positions in session s's inbox of what its connection handler sent
ConnectEvents(s) == EventsOf(s, 0)

\* the store failed session s's connect-time fetch
FetchFailed(s) ==
    \/ connPc[s] \in {"failed", "hung"}
    \/ \E k \in ConnectEvents(s) : inbox[s][k].type = "ERROR"

\* C17: a session whose connect-time fetch the store failed is never left with
\* its connection handler waiting; its socket stays open, and once the handler
\* has gone on it holds one ERROR event in place of the snapshot and its message
\* handler is registered.
C17_FailedSnapshotAnswered ==
    \A s \in Sessions :
        FetchFailed(s) =>
            /\ connPc[s] \in {"failed", "listening"}
            /\ readyState[s] = "OPEN"
            /\ connPc[s] = "listening" =>
                  /\ Cardinality(ConnectEvents(s)) = 1
                  /\ \A k \in ConnectEvents(s) : inbox[s][k].type = "ERROR"

SnapshotTypes == {"INITIAL_DATA", "ALL_ARTICLES"}

\* the snapshot event at position k of session s's inbox lists the row of r
Lists(s, k, r) == reqs[r].row \in inbox[s][k].snapshot[TableOf(reqs[r].data.type)]

\* C18: a session that had not connected when a mutation was broadcast holds no
\* NEW_* event of that mutation, and every snapshot it holds, the one sent on
\* connect and the replies to GET_ALL_ARTICLES, lists the row the mutation
\* inserted.
C18_LateSessionSeesSnapshot ==
    \A r \in DOMAIN reqs :
        (Done(r) /\ FannedOut(r)) =>
            \A s \in reqs[r].later :
                /\ NewsOf(s, r) = {}
                /\ \A k \in DOMAIN inbox[s] :
                      inbox[s][k].type \in SnapshotTypes => Lists(s, k, r)

\* Request r ended in one ALL_ARTICLES event, with articles of the store, sent to
\* its own session and in nothing else.
RepliedToSenderOnly(r) ==
    /\ reqs[r].outcome = "reply"
    /\ \A s \in Sessions \ {reqs[r].sess} : EventsOf(s, r) = {}
    /\ reqs[r].sess \in reqs[r].open =>
          /\ Cardinality(EventsOf(reqs[r].sess, r)) = 1
          /\ \A k \in EventsOf(reqs[r].sess, r) :
                /\ inbox[reqs[r].sess][k].type = "ALL_ARTICLES"
                /\ inbox[reqs[r].sess][k].snapshot.articles \subseteq ArticleIds

\* C19: a GET_ALL_ARTICLES request inserts nothing and is never left without an
\* answer; when the store answered its fetch, its sender alone holds one
\* ALL_ARTICLES event of it, and when the store failed the fetch, its sender
\* alone holds one ERROR event of it.
C19_GetAllReplies ==
    \A r \in DOMAIN reqs :
        IsType(r, "GET_ALL_ARTICLES") =>
            /\ ~Inserted(r)
            /\ reqs[r].pc # "hung"
            /\ Done(r) => IF StoreFailed(r) THEN RejectedToSenderOnly(r)
                          ELSE RepliedToSenderOnly(r)

\* request r is a PUBLISH_ARTICLE of an article with title, content and timestamp
ValidPublish(r) ==
    /\ IsType(r, "PUBLISH_ARTICLE")
    /\ reqs[r].data.title \notin {"", Undefined}
    /\ reqs[r].data.content \notin {"", Undefined}
    /\ reqs[r].data.timestamp # << >>

\* the snapshot event at position k of session s's inbox lists the article of
\* request r, with no comment and no reaction on it
ListsBare(s, k, r) ==
    /\ Inserted(r)
    /\ reqs[r].row \in inbox[s][k].snapshot.articles
    /\ \A c \in comments :
          c.id \in inbox[s][k].snapshot.comments => c.article_id # reqs[r].row
    /\ \A x \in reactions :
          x.id \in inbox[s][k].snapshot.reactions => x.article_id # reqs[r].row

\* C20: when a session sends a valid PUBLISH_ARTICLE and after it a
\* GET_ALL_ARTICLES, and the store fails neither, the GET_ALL_ARTICLES ends in
\* an ALL_ARTICLES reply that lists the published article, with no comments and
\* no reactions on it.
C20_PublishThenGetAll ==
    \A i \in DOMAIN reqs : \A j \in DOMAIN reqs :
        ( /\ i < j /\ reqs[i].sess = reqs[j].sess
          /\ ValidPublish(i) /\ IsType(j, "GET_ALL_ARTICLES")
          /\ ~StoreFailed(i) /\ ~StoreFailed(j)
          /\ Done(j) /\ reqs[j].sess \in reqs[j].open )
        => /\ reqs[j].outcome = "reply"
           /\ \A k \in EventsOf(reqs[j].sess, j) : ListsBare(reqs[j].sess, k, i)

C30_EarlyRequestProcessed ==
    \A r \in DOMAIN reqs :
        (reqs[r].early /\ Done(r)) => reqs[r].outcome \in {"broadcast", "aborted", "reply", "error"}

\* C22: every NEW_ARTICLE event of a successful PUBLISH_ARTICLE carries the id
\* the store gave the row and the timestamp of the stored row, whatever id the
\* client put into the article object.
C22_NewArticleAsPersisted ==
    \A r \in DOMAIN reqs : \A s \in Sessions : \A k \in NewsOf(s, r) :
        PublishedBy(r) =>
            /\ inbox[s][k].id = reqs[r].row
            /\ inbox[s][k].timestamp = ArticleOf(r).timestamp

CommentOf(r) == CHOOSE c \in comments : c.id = reqs[r].row

BlankAuthor(r) == reqs[r].data.clientId \in {"", Undefined}

\* C23: a finished POST_COMMENT on an existing article that the store did not
\* fail is stored; the stored row and every NEW_COMMENT event of it carry
\* 'Anonymous' when the request's author is absent or empty, and the request's
\* author otherwise.
C23_AnonymousAuthor ==
    \A r \in DOMAIN reqs :
        (IsType(r, "POST_COMMENT") /\ Done(r) /\ reqs[r].existed
           /\ reqs[r].err # StoreUnavailable) =>
            LET author == IF BlankAuthor(r) THEN "Anonymous" ELSE reqs[r].data.clientId
            IN /\ Inserted(r)
               /\ CommentOf(r).userName = author
               /\ \A s \in Sessions : \A k \in NewsOf(s, r) : inbox[s][k].author = author

\* C24: in every snapshot a session holds, a comment listed before another
\* comment of the same article is not younger than it, and every comment and
\* reaction listed refers to an article listed.
C24_SnapshotOrder ==
    \A s \in Sessions : \A k \in DOMAIN inbox[s] :
        inbox[s][k].type \in SnapshotTypes =>
            LET sn == inbox[s][k].snapshot
            IN  /\ \A p \in sn.before :
                      CommentRow(p[1]).timestamp <= CommentRow(p[2]).timestamp
                /\ \A c \in comments : c.id \in sn.comments => c.article_id \in sn.articles
                /\ \A x \in reactions : x.id \in sn.reactions => x.article_id \in sn.articles

\* C25: when a start-up has completed, the table holds every default category,
\* and no step of a start-up or of what follows removes a category.
C25_SeedingIdempotent ==
    /\ [](boot = "up" /\ HasCategories(variant) => DefaultCategories \subseteq categories)
    /\ [][categories \subseteq categories']_vars

\* C26: the process never runs on after a start-up in which the store could not
\* be reached or a table could not be created, and a process that exited has
\* sent nothing to any session.
C26_StartupFailureExits ==
    /\ boot # "degraded"
    /\ boot = "exited" => \A s \in Sessions : inbox[s] = << >>

Grew(old, new) == old \subseteq new /\ Cardinality(new) = Cardinality(old) + 1

\* C27: no step removes or changes a row of articles, comments or reactions or
\* touches the categories; the step in which a request's INSERT succeeds adds
\* one row to the table of that request and leaves the two other tables as they
\* were, and every other step leaves all three tables as they were.
C27_InsertOnly ==
    [][/\ articles \subseteq articles'
       /\ comments \subseteq comments'
       /\ reactions \subseteq reactions'
       /\ categories' = categories
       /\ \A r \in DOMAIN reqs :
             (reqs[r].row = 0 /\ reqs'[r].row # 0) =>
                 CASE TableOf(reqs[r].data.type) = "articles" ->
                        /\ Grew(articles, articles')
                        /\ comments' = comments /\ reactions' = reactions
                   [] TableOf(reqs[r].data.type) = "comments" ->
                        /\ Grew(comments, comments')
                        /\ articles' = articles /\ reactions' = reactions
                   [] TableOf(reqs[r].data.type) = "reactions" ->
                        /\ Grew(reactions, reactions')
                        /\ articles' = articles /\ comments' = comments
                   [] OTHER -> FALSE
       /\ (\A r \in DOMAIN reqs : reqs'[r].row = reqs[r].row) =>
             /\ articles' = articles /\ comments' = comments /\ reactions' = reactions]_vars

\* C27 witness: two requests have each inserted a row into the same table and
\* both rows are there, next to the rows of the other tables.
C27_Witness ==
    \E i \in DOMAIN reqs : \E j \in DOMAIN reqs :
        /\ i # j /\ Inserted(i) /\ Inserted(j)
        /\ TableOf(reqs[i].data.type) = TableOf(reqs[j].data.type)
        /\ reqs[i].row # reqs[j].row
        /\ {reqs[i].row, reqs[j].row} \subseteq RowIds(TableOf(reqs[i].data.type))
        /\ articles # {}

\* job sits in the connection's queue behind other
Behind(job, other) ==
    \E i \in DOMAIN dbq : \E j \in DOMAIN dbq : i < j /\ dbq[i] = other /\ dbq[j] = job

\* C28: while a request's statement has not completed, no other session's
\* connect-time fetch and no other session's statement has to wait for it.
C28_StalledRequestHoldsNoOne ==
    \A r \in DOMAIN reqs :
        reqs[r].pc = "query" =>
            /\ \A s \in Sessions \ {reqs[r].sess} :
                  connPc[s] = "query" => ~Behind(Job("conn", s), Job("req", r))
            /\ \A j \in DOMAIN reqs :
                  (reqs[j].pc = "query" /\ reqs[j].sess # reqs[r].sess) =>
                      ~Behind(Job("req", j), Job("req", r))

\* C29: a finished mutation that was answered with ERROR has inserted no row,
\* and one that inserted a row ended in its broadcast, with no ERROR event of it
\* in its sender's inbox.
C29_ErrorMeansNoRow ==
    \A r \in DOMAIN reqs :
        (Done(r) /\ reqs[r].data.type \in Mutations) =>
            /\ reqs[r].outcome \in {"error", "aborted"} => ~Inserted(r)
            /\ Inserted(r) =>
                  /\ reqs[r].outcome = "broadcast"
                  /\ \A k \in EventsOf(reqs[r].sess, r) :
                        inbox[reqs[r].sess][k].type # "ERROR"

\* C31: the first event in every session's inbox is an event of its own
\* connection handler: the snapshot, or the ERROR sent in its place.
C31_SnapshotComesFirst ==
    \A s \in Sessions : inbox[s] # << >> => inbox[s][1].req = 0

\* positions in session s's inbox, after position k, of the events that announce
\* a row of table t
AnnouncedAfter(s, k, t) ==
    { m \in DOMAIN inbox[s] : /\ m > k
                              /\ inbox[s][m].type \in NewTypes
                              /\ NewsTable(inbox[s][m].type) = t }

RowAnnounced(s, m) == reqs[inbox[s][m].req].row

\* C33: for a session whose socket is open and that holds its connect-time
\* snapshot, once every request has finished: for each table, the rows listed
\* in the snapshot and the rows announced by the NEW_* events after it are
\* together the rows of the table, no row is both listed and announced, and no
\* row is announced twice.
C33_ViewEqualsStore ==
    \A s \in Sessions : \A k \in ConnectEvents(s) :
        ( /\ readyState[s] = "OPEN" /\ connPc[s] = "listening"
          /\ inbox[s][k].type \in SnapshotTypes
          /\ \A r \in DOMAIN reqs : Done(r) ) =>
            \A t \in {"articles", "comments", "reactions"} :
                LET listed == inbox[s][k].snapshot[t]
                    told == { RowAnnounced(s, m) : m \in AnnouncedAfter(s, k, t) }
                IN  /\ listed \cup told = RowIds(t)
                    /\ listed \cap told = {}
                    /\ \A m \in AnnouncedAfter(s, k, t) : \A n \in AnnouncedAfter(s, k, t) :
                          m # n => RowAnnounced(s, m) # RowAnnounced(s, n)

\* C34: when two sessions each hold a NEW_* event of each of two requests, the
\* two events come in the same order in both inboxes.
C34_SameOrderEverywhere ==
    \A s \in Sessions : \A k \in DOMAIN inbox[s] : \A m \in DOMAIN inbox[s] :
        (k < m /\ inbox[s][k].type \in NewTypes /\ inbox[s][m].type \in NewTypes) =>
            \A o \in Sessions \ {s} :
                \A x \in NewsOf(o, inbox[s][k].req) : \A y \in NewsOf(o, inbox[s][m].req) :
                    x < y

\* C34 witness: every session holds the NEW_* events of two different requests.
C34_Witness ==
    \E i \in DOMAIN reqs : \E j \in DOMAIN reqs :
        /\ i # j
        /\ \A s \in Sessions : NewsOf(s, i) # {} /\ NewsOf(s, j) # {}

\* C35: of two NEW_* events in one inbox that announce rows of the same table,
\* the one that comes first announces the row with the smaller id.
C35_BroadcastInInsertOrder ==
    \A s \in Sessions : \A k \in DOMAIN inbox[s] : \A m \in DOMAIN inbox[s] :
        ( /\ k < m
          /\ inbox[s][k].type \in NewTypes
          /\ inbox[s][m].type = inbox[s][k].type ) =>
            RowAnnounced(s, k) < RowAnnounced(s, m)

\* C37: while the start-up of the process has not finished, no socket has been
\* accepted and no connection handler has begun its fetch.
C37_NoSessionBeforeStartup ==
    boot \in {"connect", "schema", "seed"} =>
        \A s \in Sessions : readyState[s] = "CONNECTING" /\ connPc[s] = "idle"

\* C40: every row of articles is the row a PUBLISH_ARTICLE request inserted, so
\* that the articles of a store that was fresh are empty until the first publish.
C40_ArticlesComeFromPublish ==
    \A a \in articles : \E r \in DOMAIN reqs : PublishedBy(r) /\ reqs[r].row = a.id

\* C39: a finished POST_REACTION on an existing article whose triple no other
\* request has, and whose statement the store did not fail, has inserted its
\* row and ended in its broadcast, with one NEW_REACTION in the inbox of every
\* socket that was open, whatever other reactions the same client or other
\* clients have put on the article.
C39_DistinctReactionSucceeds ==
    \A r \in DOMAIN reqs :
        ( /\ IsType(r, "POST_REACTION") /\ Done(r) /\ reqs[r].existed
          /\ reqs[r].err # StoreUnavailable
          /\ \A j \in DOMAIN reqs \ {r} : IsType(j, "POST_REACTION") => ~SameTriple(r, j) ) =>
            /\ Inserted(r)
            /\ reqs[r].outcome = "broadcast"
            /\ \A s \in reqs[r].open : Cardinality(NewsOf(s, r)) = 1

\* C38: every stored article, which is what a snapshot sends, and every
\* NEW_ARTICLE event carries no category id at all or the id of a category in
\* the store.
C38_CategoryExists ==
    /\ \A a \in articles : a.category_id \in CategoryIds \cup {0}
    /\ \A s \in Sessions : \A k \in DOMAIN inbox[s] :
          inbox[s][k].type = "NEW_ARTICLE" => inbox[s][k].category \in CategoryIds \cup {0}

\* C32: a snapshot shows the store as it was at one instant: when it lists the
\* row one request inserted, it lists the article of every publish that had
\* finished before that request arrived.
C32_SnapshotOfOneInstant ==
    \A s \in Sessions : \A k \in DOMAIN inbox[s] :
        inbox[s][k].type \in SnapshotTypes =>
            \A j \in DOMAIN reqs : \A i \in reqs[j].prior :
                (Inserted(j) /\ Lists(s, k, j) /\ PublishedBy(i)) => Lists(s, k, i)

\* handlers that hold a client of the pool: their function has taken one and
\* has not left yet
HoldingRequests ==
    { r \in DOMAIN reqs : reqs[r].pc = "resume" /\ reqs[r].err # PoolConnectFailed }

HoldingSessions == { s \in Sessions : connPc[s] \in {"details", "resume", "failed"} }

NothingInFlight ==
    /\ \A r \in DOMAIN reqs : Done(r)
    /\ \A s \in Sessions : connPc[s] \in {"idle", "listening"}

\* C36: in the pooled iterations the clients out of the pool are those of the
\* functions that took one and have not left yet, one each, whether their
\* statements succeeded or threw; so no client is out when no request is in
\* flight.
C36_PoolClientsReleased ==
    /\ checkedOut = IF UsesPool(variant)
                    THEN Cardinality(HoldingRequests) + Cardinality(HoldingSessions)
                    ELSE 0
    /\ NothingInFlight => checkedOut = 0

\* a pooled iteration at rest after a statement that failed, a pool.connect()
\* that failed and a fetch that failed
C36_Witness ==
    /\ UsesPool(variant)
    /\ NothingInFlight
    /\ checkedOut = 0
    /\ \E r \in DOMAIN reqs : reqs[r].err = StoreUnavailable
    /\ \E r \in DOMAIN reqs : reqs[r].err = PoolConnectFailed
    /\ \E s \in Sessions : \E k \in DOMAIN inbox[s] :
          inbox[s][k].type = "ERROR" /\ inbox[s][k].req = 0
====
